---- MODULE Spec2Model ----
(***************************************************************************)
(* The task-progress synchronization client of rag-story-writer-front:     *)
(* the React hook useTaskWebSocket (hooks/useTaskWebSocket), the status    *)
(* component that owns it (components/TaskStatus, ImprovedTaskStatus) and  *)
(* the part of App that mounts and unmounts that component.                *)
(*                                                                         *)
(* One behaviour is the life of ONE hook instance (one job).  A step is    *)
(* one event-loop task: a WebSocket event handler, a timer callback, a     *)
(* click handler, the continuation of an awaited fetch, or one React       *)
(* render of the component together with the effects that render runs.     *)
(* React state setters take effect at once on the state (functional        *)
(* updaters see the latest value); closures created by a render keep the   *)
(* values of that render.                                                  *)
(***************************************************************************)
EXTENDS Integers, Sequences, FiniteSets, TLC

\* ------------------------------------------------------------------ bounds

\* config.WS_RECONNECT_ATTEMPTS: parseInt(VITE_WS_RECONNECT_ATTEMPTS || '5').
\* The value is read from the environment; the model runs with a small one.
WS_RECONNECT_ATTEMPTS == 2

\* The most WebSockets one hook instance creates in a behaviour.
MaxSessions == 4

\* ------------------------------------------------------------ value shapes

\* An optional value (T | undefined) is a sequence of length 0 or 1.
Undefined == <<>>
Some(v) == <<v>>

\* Strings that the code takes apart (URLs) are sequences of characters.
EmptyStr == <<>>
RelativePdf == <<"/", "a">>
AbsolutePdf == <<"h", "/", "a">>

\* config.API_BASE_URL of the deployment the hook is followed in, with a trailing slash
API_BASE_URL == <<"h", "/">>

\* longest base URL and longest pdf_url the resolution is applied to
MaxUrlLen == 3

GiveUpError == "Unable to establish WebSocket connection. Using manual status checks instead."
CreateError == "Failed to create WebSocket connection"
DefaultTaskError == "Task failed"

\* info.progress values a frame may carry
ProgressInputs == {40, 150}

\* JavaScript truthiness of an optional string (URL or plain)
TruthyUrl(o) == o # Undefined /\ o[1] # EmptyStr
TruthyStr(o) == o # Undefined /\ o[1] # ""

VARIABLES
    mounted,             \* the component (and so the hook instance) is mounted
    wsUrlValid,          \* new WebSocket(url) does not throw for this job's URL
    socket,              \* useState socket: 0 is null, else an index of sessions
    isConnected,         \* useState isConnected
    status,              \* useState status
    progress,            \* useState progress
    pdfUrl,              \* useState pdfUrl (optional string)
    error,               \* useState error (optional string)
    connectionAttempts,  \* useState connectionAttempts
    reconnectTimeout,    \* the pending timer of reconnectTimeoutRef:
                         \* Undefined, or Some(a) with a the connectionAttempts
                         \* captured by the connect closure the timer will call
    isUnmountedRef,      \* isUnmountedRef.current
    renderedAttempts,    \* connectionAttempts of the last render: what the current
                         \* connect closure captured, and the effect's dependency
    renderedPdfUrl,      \* pdfUrl of the last render (dependency of the onComplete effect)
    effectSocket,        \* socket captured by the cleanup of the connect effect
    sessions,            \* every WebSocket created, in order of creation
    isCheckingStatus,    \* useState isCheckingStatus of the status component
    fetchInFlight,       \* the number of pending fetchTaskStatus promises
    appTaskId,           \* App: taskId is defined
    appPdfUrl,           \* App: pdfUrl (optional string)
    everOpened,          \* history: a WebSocket of this hook instance has opened
    apiBaseUrl,          \* config.API_BASE_URL, fixed when the module is loaded
    infoPdfUrl,          \* message.info.pdf_url of the frame the resolution ran on
    maxAttempts          \* config.WS_RECONNECT_ATTEMPTS, fixed when the module is loaded

snapshot == <<status, progress, pdfUrl, error>>
diagnostics == <<isConnected, connectionAttempts>>
hookVars == <<socket, isConnected, status, progress, pdfUrl, error, connectionAttempts,
              reconnectTimeout, isUnmountedRef, renderedAttempts, renderedPdfUrl,
              effectSocket, sessions>>
appVars == <<isCheckingStatus, fetchInFlight, appTaskId, appPdfUrl>>
\* what no handler of the hook writes
fixedVars == <<apiBaseUrl, infoPdfUrl, maxAttempts>>
vars == <<mounted, wsUrlValid, hookVars, appVars, everOpened, fixedVars>>


\* ------------------------------------------------------------- WebSocket

\* A WebSocket with the handlers connect gave it: att is the connectionAttempts
\* captured by those handlers; grace is the pending setTimeout(() => ws.close(), 1000).
NewSession(att) == [rs |-> "connecting", att |-> att, grace |-> FALSE]

Live(s) == sessions[s].rs \in {"connecting", "open"}
LiveSessions == {s \in 1..Len(sessions) : Live(s)}

\* ws.close(): a connecting or open socket starts closing; else a no-op. s = 0 is null.
CloseSocket(sess, s) ==
    IF s = 0 THEN sess
    ELSE [sess EXCEPT ![s].rs = IF @ \in {"connecting", "open"} THEN "closing" ELSE @]

\* ------------------------------------------------------------- connect()

\* connect with captured connectionAttempts att, isUnmountedRef.current = unm
ConnectGivesUpLate(att) == att > maxAttempts
ConnectGivesUpNever(att) == FALSE
ConnectGivesUp(att) == att >= maxAttempts
ConnectCreates(att, unm) == ~ConnectGivesUp(att) /\ ~unm /\ wsUrlValid
ConnectError(att, unm, err) ==
    IF ConnectGivesUp(att) THEN Some(GiveUpError)
    ELSE IF unm THEN err
    ELSE IF wsUrlValid THEN err
    ELSE Some(CreateError)
ConnectSessions(att, unm, sess) ==
    IF ConnectCreates(att, unm) THEN Append(sess, NewSession(att)) ELSE sess
ConnectSocket(att, unm, sess, sock) ==
    IF ConnectCreates(att, unm) THEN Len(sess) + 1 ELSE sock

\* ------------------------------------------------------------------ Init

\* After the first render and its effects: isUnmountedRef.current = false; connect()
\* with connectionAttempts = 0. The cleanup of this effect captured socket = null.
HookInit ==
    /\ mounted = TRUE
    /\ wsUrlValid \in BOOLEAN
    /\ isConnected = FALSE
    /\ status = "pending"
    /\ progress = 0
    /\ pdfUrl = Undefined
    /\ error = ConnectError(0, FALSE, Undefined)
    /\ connectionAttempts = 0
    /\ reconnectTimeout = Undefined
    /\ isUnmountedRef = FALSE
    /\ renderedAttempts = 0
    /\ renderedPdfUrl = Undefined
    /\ effectSocket = 0
    /\ sessions = ConnectSessions(0, FALSE, <<>>)
    /\ socket = ConnectSocket(0, FALSE, <<>>, 0)
    /\ isCheckingStatus = FALSE
    /\ fetchInFlight = 0
    /\ appTaskId = TRUE
    /\ appPdfUrl = Undefined
    /\ everOpened = FALSE
    /\ apiBaseUrl = API_BASE_URL
    /\ infoPdfUrl = Undefined

Init == maxAttempts = WS_RECONNECT_ATTEMPTS /\ HookInit

\* ------------------------------------------------------------- ws.onopen

OnOpen(s) ==
    /\ sessions[s].rs = "connecting"
    /\ IF isUnmountedRef
       THEN /\ sessions' = [sessions EXCEPT ![s].rs = "closing"]
            /\ UNCHANGED <<isConnected, error, connectionAttempts>>
       ELSE /\ sessions' = [sessions EXCEPT ![s].rs = "open"]
            /\ isConnected' = TRUE
            /\ error' = Undefined
            /\ connectionAttempts' = 0
    /\ everOpened' = TRUE
    /\ UNCHANGED <<fixedVars, mounted, wsUrlValid, socket, status, progress, pdfUrl, reconnectTimeout,
                   isUnmountedRef, renderedAttempts, renderedPdfUrl, effectSocket, appVars>>

\* ----------------------------------------------------------- ws.onmessage

ProgressStates == {"PENDING", "PROCESSING", "IN_PROGRESS", "PROGRESS"}
CompletedStatesSuccessOnly == {"SUCCESS"}
CompletedStates == {"SUCCESS", "COMPLETED"}
FailedStates == {"FAILED", "ERROR"}

\* event.data, as far as the handler reads it: parses is whether JSON.parse succeeds
\* and message.state can be read; state is message.state; the rest is message.info.*
\* and message.error.
Frame(p, st, pr, url, ie, te) ==
    [parses |-> p, state |-> st, progress |-> pr, pdf_url |-> url, infoError |-> ie, topError |-> te]

\* The frames a socket may deliver: every payload with one discriminator of each
\* case, the other discriminators of the case with one payload, and frames the
\* switch ignores (no state, an unknown state, another casing, not JSON).
Messages ==
    {Frame(TRUE, Some(st), pr, Undefined, Undefined, Undefined) :
        st \in {"PENDING", "PROCESSING"},
        pr \in {Undefined} \cup {Some(n) : n \in ProgressInputs}}
    \cup
    {Frame(TRUE, Some(st), Some(40), Undefined, Undefined, Undefined) :
        st \in {"IN_PROGRESS", "PROGRESS"}}
    \cup
    {Frame(TRUE, Some("SUCCESS"), Undefined, url, Undefined, Undefined) :
        url \in {Undefined, Some(EmptyStr), Some(RelativePdf), Some(AbsolutePdf)}}
    \cup
    {Frame(TRUE, Some("COMPLETED"), Undefined, Some(RelativePdf), Undefined, Undefined)}
    \cup
    {Frame(TRUE, Some("FAILED"), Undefined, Undefined, ie, te) :
        ie \in {Undefined, Some(""), Some("boom")}, te \in {Undefined, Some("top")}}
    \cup
    {Frame(TRUE, Some("ERROR"), Undefined, Undefined, Some("boom"), Undefined)}
    \cup
    {Frame(TRUE, st, Undefined, Undefined, Undefined, Undefined) :
        st \in {Undefined, Some("WEIRD_STATE"), Some("success")}}
    \cup
    {Frame(FALSE, Undefined, Undefined, Undefined, Undefined, Undefined)}

\* config.API_BASE_URL.replace(/\/$/, '')
StripNothing(b) == b
StripTrailingSlash(b) ==
    IF b # EmptyStr /\ b[Len(b)] = "/" THEN SubSeq(b, 1, Len(b) - 1) ELSE b

\* fullPdfUrl of a truthy info.pdf_url
FullPdfUrlAlwaysPrefixed(u) == StripTrailingSlash(apiBaseUrl) \o u
FullPdfUrl(u) ==
    IF Head(u) = "/" THEN StripTrailingSlash(apiBaseUrl) \o u ELSE u

\* message.info?.error || message.error || 'Task failed'
FailureTextInfoOnly(m) == IF m.infoError # Undefined THEN m.infoError[1] ELSE DefaultTaskError
FailureText(m) ==
    IF TruthyStr(m.infoError) THEN m.infoError[1]
    ELSE IF TruthyStr(m.topError) THEN m.topError[1]
    ELSE DefaultTaskError

\* if (isUnmountedRef.current) return;
OnMessageDroppedNever == FALSE
OnMessageDropped == isUnmountedRef

\* the case of the switch that runs; "none" for a frame that does not parse, the
\* default case, and a dropped frame
MessageCase(m) ==
    IF OnMessageDropped \/ ~m.parses \/ m.state = Undefined THEN "none"
    ELSE IF m.state[1] = "PENDING" THEN "pending"
    ELSE IF m.state[1] \in {"PROCESSING", "IN_PROGRESS", "PROGRESS"} THEN "processing"
    ELSE IF m.state[1] \in CompletedStates THEN "completed"
    ELSE IF m.state[1] \in FailedStates THEN "failed"
    ELSE "none"

\* progress after the case c of the switch ran on frame m, from progress pr:
\* setProgress(message.info.progress) of the pending and processing cases,
\* setProgress(100) of the completed case
ProgressAfterNoForce(c, m, pr) ==
    IF c \in {"pending", "processing"} /\ m.progress # Undefined THEN m.progress[1] ELSE pr
ProgressAfterResets(c, m, pr) ==
    IF c \in {"pending", "processing"}
    THEN (IF m.progress # Undefined THEN m.progress[1] ELSE 0)
    ELSE IF c = "completed" THEN 100 ELSE pr
ProgressAfter(c, m, pr) ==
    IF c \in {"pending", "processing"} /\ m.progress # Undefined THEN m.progress[1]
    ELSE IF c = "completed" THEN 100 ELSE pr

\* status, pdfUrl and error after the case c ran on frame m: setStatus of every
\* case, setPdfUrl(fullPdfUrl) of the completed case, setError of the failed case
StatusAfterCase(c, st) == c
StatusAfter(c, st) == IF c = "none" THEN st ELSE c
PdfUrlAfter(c, m, u) ==
    IF c = "completed" /\ TruthyUrl(m.pdf_url) THEN Some(FullPdfUrl(m.pdf_url[1])) ELSE u
ErrorAfter(c, m, e) == IF c = "failed" THEN Some(FailureText(m)) ELSE e

\* the WebSockets after the case c ran in the handler of socket s: the completed case
\* arms setTimeout(() => ws.close(), 1000), the failed case calls ws.close()
SessionsAfter(c, s, sess) ==
    IF c = "completed" THEN [sess EXCEPT ![s].grace = TRUE]
    ELSE IF c = "failed" THEN CloseSocket(sess, s)
    ELSE sess

OnMessage(s, m) ==
    /\ sessions[s].rs = "open"
    /\ LET c == MessageCase(m) IN
       /\ status' = StatusAfter(c, status)
       /\ progress' = ProgressAfter(c, m, progress)
       /\ pdfUrl' = PdfUrlAfter(c, m, pdfUrl)
       /\ error' = ErrorAfter(c, m, error)
       /\ sessions' = SessionsAfter(c, s, sessions)
    /\ UNCHANGED <<fixedVars, everOpened, mounted, wsUrlValid, socket, isConnected, connectionAttempts,
                   reconnectTimeout, isUnmountedRef, renderedAttempts, renderedPdfUrl,
                   effectSocket, appVars>>

\* setTimeout(() => ws.close(), 1000) of the completed case
GraceClose(s) ==
    /\ sessions[s].grace
    /\ sessions' = [CloseSocket(sessions, s) EXCEPT ![s].grace = FALSE]
    /\ UNCHANGED <<fixedVars, everOpened, mounted, wsUrlValid, socket, isConnected, status, progress,
                   pdfUrl, error, connectionAttempts, reconnectTimeout, isUnmountedRef, renderedAttempts,
                   renderedPdfUrl, effectSocket, appVars>>

\* ------------------------------------------------- ws.onerror, ws.onclose

\* The close event of a socket. 1005 is the code of a close that carried none,
\* 1006 that of a connection lost or never made. failed: the browser fires an
\* error event first, in the same task (ws.onerror, then ws.onclose).
CloseEvents ==
    { [code |-> 1000, wasClean |-> TRUE, failed |-> FALSE],
      [code |-> 1005, wasClean |-> TRUE, failed |-> FALSE],
      [code |-> 1006, wasClean |-> FALSE, failed |-> TRUE],
      [code |-> 1006, wasClean |-> FALSE, failed |-> FALSE],
      [code |-> 1000, wasClean |-> FALSE, failed |-> FALSE] }

\* connectionAttempts < config.WS_RECONNECT_ATTEMPTS && event.code !== 1000 && !event.wasClean
\* with att the connectionAttempts the handler captured
OnCloseRetriesAnyClose(att, ev) == att < maxAttempts
OnCloseRetries(att, ev) ==
    att < maxAttempts /\ ev.code # 1000 /\ ~ev.wasClean

\* if (isUnmountedRef.current) return;   (after setIsConnected(false))
OnCloseDropped == isUnmountedRef

\* ws.onclose, after ws.onerror (which only calls setIsConnected(false)) when the
\* connection failed. A socket that never opened cannot close cleanly. The closed
\* socket runs no handler again: the model forgets what its handlers captured.
OnClose(s, ev) ==
    /\ sessions[s].rs \in {"connecting", "open", "closing"}
    /\ sessions[s].rs = "connecting" => ~ev.wasClean
    /\ sessions' = [sessions EXCEPT ![s] = [rs |-> "closed", att |-> 0, grace |-> FALSE]]
    /\ isConnected' = FALSE
    /\ IF ~OnCloseDropped /\ OnCloseRetries(sessions[s].att, ev)
       THEN /\ connectionAttempts' = connectionAttempts + 1
            /\ reconnectTimeout' = Some(sessions[s].att)
       ELSE UNCHANGED <<connectionAttempts, reconnectTimeout>>
    /\ UNCHANGED <<fixedVars, everOpened, mounted, wsUrlValid, socket, status, progress, pdfUrl, error,
                   isUnmountedRef, renderedAttempts, renderedPdfUrl, effectSocket, appVars>>

\* ------------------------------------------------------- pending renders

\* connect changed since the effect last ran (its dependency connectionAttempts did)
ConnectChanged == connectionAttempts # renderedAttempts

\* the onComplete effect of the status component has a new pdfUrl to look at
PdfUrlChanged == pdfUrl # renderedPdfUrl

\* A state change schedules a render that runs effects; React runs it within
\* milliseconds.
RenderPending == mounted /\ (ConnectChanged \/ PdfUrlChanged)

\* ------------------------------------------------ the reconnect timer fires

\* config.WS_RECONNECT_DELAY (3000 ms unless configured) is longer than React takes
\* to run a scheduled render: the timer does not fire while a render is pending.

\* setTimeout(() => { if (!isUnmountedRef.current) connect(); }, config.WS_RECONNECT_DELAY)
ReconnectTimerFires ==
    /\ reconnectTimeout # Undefined
    /\ ~RenderPending
    /\ LET att == reconnectTimeout[1] IN
       /\ ConnectCreates(att, isUnmountedRef) => Len(sessions) < MaxSessions
       /\ sessions' = ConnectSessions(att, isUnmountedRef, sessions)
       /\ socket' = ConnectSocket(att, isUnmountedRef, sessions, socket)
       /\ error' = IF isUnmountedRef THEN error ELSE ConnectError(att, FALSE, error)
    /\ reconnectTimeout' = Undefined
    /\ UNCHANGED <<fixedVars, everOpened, mounted, wsUrlValid, isConnected, status, progress, pdfUrl,
                   connectionAttempts, isUnmountedRef, renderedAttempts, renderedPdfUrl,
                   effectSocket, appVars>>

\* ------------------------------------------- render, effects and unmount

\* The cleanup of the connect effect and of the unmount effect, run when the
\* component unmounts: isUnmountedRef.current = true; resetReconnectTimeout();
\* if (socket) socket.close(), with socket the value the cleanup captured.
CleanupSessions(sess, captured) == CloseSocket(sess, captured)

\* if (pdfUrl) onComplete?.(pdfUrl): App.handleTaskComplete sets App's pdfUrl, and
\* App then renders without the status component (taskId && !pdfUrl is false).
CompletesApp == PdfUrlChanged /\ TruthyUrl(pdfUrl)

\* One render of the status component and the effects it runs, in order:
\*  - the connect effect, when connect changed: the cleanup of its last run, then
\*    isUnmountedRef.current = false; connect();
\*  - the onComplete effect, when pdfUrl changed;
\*  - when that made App drop the component, the cleanups of the unmount.
Render ==
    /\ RenderPending
    /\ LET att == connectionAttempts
           \* after the cleanup of the last run of the connect effect
           sess1 == IF ConnectChanged THEN CleanupSessions(sessions, effectSocket) ELSE sessions
           \* after connect()
           sess2 == IF ConnectChanged THEN ConnectSessions(att, FALSE, sess1) ELSE sess1
           sock2 == IF ConnectChanged THEN ConnectSocket(att, FALSE, sess1, socket) ELSE socket
           eff2 == IF ConnectChanged THEN socket ELSE effectSocket
       IN
       /\ ConnectChanged /\ ConnectCreates(att, FALSE) => Len(sessions) < MaxSessions
       /\ error' = IF ConnectChanged THEN ConnectError(att, FALSE, error) ELSE error
       /\ reconnectTimeout' = IF ConnectChanged \/ CompletesApp THEN Undefined
                              ELSE reconnectTimeout
       /\ socket' = sock2
       /\ effectSocket' = eff2
       /\ sessions' = IF CompletesApp THEN CleanupSessions(sess2, eff2) ELSE sess2
       /\ isUnmountedRef' = CompletesApp
       /\ mounted' = ~CompletesApp
       /\ appPdfUrl' = IF CompletesApp THEN pdfUrl ELSE appPdfUrl
    /\ renderedAttempts' = connectionAttempts
    /\ renderedPdfUrl' = pdfUrl
    /\ UNCHANGED <<fixedVars, everOpened, wsUrlValid, isConnected, status, progress, pdfUrl, connectionAttempts,
                   isCheckingStatus, fetchInFlight, appTaskId>>

\* App stops rendering the status component: the cleanups of the hook's two effects.
Unmount ==
    /\ mounted' = FALSE
    /\ isUnmountedRef' = (mounted \/ isUnmountedRef)
    /\ reconnectTimeout' = IF mounted THEN Undefined ELSE reconnectTimeout
    /\ sessions' = IF mounted THEN CleanupSessions(sessions, effectSocket) ELSE sessions

\* App.handleStartOver (the Start Over button shows while taskId || pdfUrl)
HandleStartOver ==
    /\ appTaskId \/ appPdfUrl # Undefined
    /\ appTaskId' = FALSE
    /\ appPdfUrl' = Undefined
    /\ Unmount
    /\ UNCHANGED <<fixedVars, everOpened, wsUrlValid, socket, isConnected, status, progress, pdfUrl, error,
                   connectionAttempts, renderedAttempts, renderedPdfUrl, effectSocket,
                   isCheckingStatus, fetchInFlight>>

\* App.handleEditDetails followed by App.confirmEditDetails (the Edit Details
\* button shows while taskId && !pdfUrl)
ConfirmEditDetails ==
    /\ appTaskId /\ appPdfUrl = Undefined
    /\ appTaskId' = FALSE
    /\ Unmount
    /\ UNCHANGED <<fixedVars, everOpened, wsUrlValid, socket, isConnected, status, progress, pdfUrl, error,
                   connectionAttempts, renderedAttempts, renderedPdfUrl, effectSocket,
                   isCheckingStatus, fetchInFlight, appPdfUrl>>

\* ------------------------------------------------------ handleManualCheck

\* What fetchTaskStatus resolves to, as far as handleManualCheck reads it:
\* result.status and result.result?.pdf_url
FetchResults ==
    [status : {"pending", "processing", "completed", "failed"},
     pdf_url : {Undefined, Some(EmptyStr), Some(RelativePdf)}]

\* The Check Status button: rendered while !isConnected && status !== 'completed',
\* disabled while isCheckingStatus. Runs handleManualCheck up to its await.
CheckButtonNeverDisabled == ~isConnected /\ status # "completed"
CheckButtonEnabled == ~isConnected /\ status # "completed" /\ ~isCheckingStatus

HandleManualCheck ==
    /\ mounted
    /\ CheckButtonEnabled
    /\ isCheckingStatus' = TRUE
    /\ fetchInFlight' = fetchInFlight + 1
    /\ UNCHANGED <<fixedVars, everOpened, mounted, wsUrlValid, hookVars, appTaskId, appPdfUrl>>

\* result.status === 'completed' && result.result?.pdf_url
CheckCompletes(r) == r.status = "completed" /\ TruthyUrl(r.pdf_url)

\* handleManualCheck after its await, the fetch resolved with r: onComplete sets
\* App's pdfUrl, and App then renders without the status component.
FetchResolves(r) ==
    /\ fetchInFlight > 0
    /\ fetchInFlight' = fetchInFlight - 1
    /\ isCheckingStatus' = FALSE
    /\ IF CheckCompletes(r)
       THEN /\ appPdfUrl' = Some(r.pdf_url[1])
            /\ Unmount
       ELSE UNCHANGED <<appPdfUrl, mounted, isUnmountedRef, reconnectTimeout, sessions>>
    /\ UNCHANGED <<fixedVars, everOpened, wsUrlValid, socket, isConnected, status, progress, pdfUrl, error,
                   connectionAttempts, renderedAttempts, renderedPdfUrl, effectSocket,
                   appTaskId>>

\* handleManualCheck after its await, the fetch rejected (HTTP error, timeout,
\* network error, a body that is not JSON): the catch logs, the finally runs.
FetchRejects ==
    /\ fetchInFlight > 0
    /\ fetchInFlight' = fetchInFlight - 1
    /\ isCheckingStatus' = FALSE
    /\ UNCHANGED <<fixedVars, everOpened, mounted, wsUrlValid, hookVars, appTaskId, appPdfUrl>>

Next ==
    \/ \E s \in 1..Len(sessions) : OnOpen(s)
    \/ \E s \in 1..Len(sessions), m \in Messages : OnMessage(s, m)
    \/ \E s \in 1..Len(sessions) : GraceClose(s)
    \/ \E s \in 1..Len(sessions), ev \in CloseEvents : OnClose(s, ev)
    \/ ReconnectTimerFires
    \/ Render
    \/ HandleStartOver
    \/ ConfirmEditDetails
    \/ HandleManualCheck
    \/ \E r \in FetchResults : FetchResolves(r)
    \/ FetchRejects

Spec == Init /\ [][Next]_vars

\* ------------------------------------------- resolution of info.pdf_url
\* The resolution block of the completed case on its own, for every base URL the
\* configuration may hold and every pdf_url a frame may carry.

UrlChars == {"h", "/", "a"}
UrlStrings == UNION {[1..n -> UrlChars] : n \in 0..MaxUrlLen}

UrlInit ==
    /\ apiBaseUrl \in UrlStrings
    /\ infoPdfUrl = Undefined
    /\ maxAttempts = WS_RECONNECT_ATTEMPTS
    /\ mounted = TRUE
    /\ wsUrlValid = TRUE
    /\ isConnected = FALSE
    /\ status = "pending"
    /\ progress = 0
    /\ pdfUrl = Undefined
    /\ error = Undefined
    /\ connectionAttempts = 0
    /\ reconnectTimeout = Undefined
    /\ isUnmountedRef = FALSE
    /\ renderedAttempts = 0
    /\ renderedPdfUrl = Undefined
    /\ effectSocket = 0
    /\ sessions = <<>>
    /\ socket = 0
    /\ isCheckingStatus = FALSE
    /\ fetchInFlight = 0
    /\ appTaskId = TRUE
    /\ appPdfUrl = Undefined
    /\ everOpened = FALSE

\* if (message.info?.pdf_url) { ... setPdfUrl(fullPdfUrl) } on a frame carrying r
SetPdfUrl(r) ==
    /\ infoPdfUrl' = Some(r)
    /\ pdfUrl' = PdfUrlAfter("completed",
                     Frame(TRUE, Some("SUCCESS"), Undefined, Some(r), Undefined, Undefined),
                     pdfUrl)
    /\ UNCHANGED <<mounted, wsUrlValid, socket, isConnected, status, progress, error,
                   connectionAttempts, reconnectTimeout, isUnmountedRef, renderedAttempts,
                   renderedPdfUrl, effectSocket, sessions, appVars, everOpened, apiBaseUrl,
                   maxAttempts>>

UrlNext == \E r \in UrlStrings : SetPdfUrl(r)

UrlSpec == UrlInit /\ [][UrlNext]_vars

\* ------------------------------------------------- a server out of reach
\* The hook while no WebSocket ever opens, for every retry limit the configuration
\* may hold up to MaxSessions: every WebSocket the hook creates closes
\* with code 1006 and wasClean false. The user may still check by hand, start over
\* or edit the details. No frame arrives, and the reconnect timer never fires: the
\* close that sets it also changes connectionAttempts, and the render that follows
\* clears it (resetReconnectTimeout in the effect cleanup) before its delay is over.

AbnormalCloses == {ev \in CloseEvents : ~ev.wasClean /\ ev.code # 1000}

UnreachableInit == maxAttempts \in 0..MaxSessions /\ HookInit /\ wsUrlValid

\* the browser gives up on a connection that is not answered
FailedClose == \E s \in 1..Len(sessions), ev \in AbnormalCloses : OnClose(s, ev)

UnreachableNext ==
    \/ FailedClose
    \/ Render
    \/ HandleStartOver
    \/ ConfirmEditDetails
    \/ HandleManualCheck
    \/ \E r \in FetchResults : FetchResolves(r)
    \/ FetchRejects

\* The browser fires the close event of a failed connection, and React runs a
\* render it has scheduled.
UnreachableSpec ==
    UnreachableInit /\ [][UnreachableNext]_vars /\ WF_vars(FailedClose) /\ WF_vars(Render)

\* ------------------------------------------------------------------ claims

TerminalStatuses == {"completed", "failed"}

\* a later connect created a newer WebSocket than s
Superseded(s) == s < Len(sessions)

OpenStep(s) == OnOpen(s)
MessageStep(s) == \E m \in Messages : OnMessage(s, m)
CloseStep(s) == \E ev \in CloseEvents : OnClose(s, ev)

\* C1: at most one WebSocket of the hook instance is connecting or open at any time
\* (the reconnect timer is a single ref, cleared before it is set).
C1_OneLiveSession == Cardinality(LiveSessions) <= 1

\* C2: once status is completed or failed, no step changes status, progress, pdfUrl
\* or error.
C2_TerminalIsFrozen ==
    [][(status \in TerminalStatuses) => (UNCHANGED <<status, progress, pdfUrl, error>>)]_vars

\* C3: a handler (onopen, onmessage, onclose) of a superseded WebSocket changes
\* neither the snapshot nor the diagnostics and schedules no reconnect.
C3_StaleCallbacksDiscarded ==
    [][\A s \in 1..Len(sessions) :
          Superseded(s) /\ (OpenStep(s) \/ MessageStep(s) \/ CloseStep(s))
          => (UNCHANGED <<status, progress, pdfUrl, error, isConnected,
                          connectionAttempts, reconnectTimeout>>)]_vars

\* C4: connectionAttempts is always in 0..WS_RECONNECT_ATTEMPTS.
C4_AttemptsInRange == connectionAttempts \in 0..WS_RECONNECT_ATTEMPTS

\* C5: connectionAttempts changes only by the reset to 0 of a successful open, or by
\* +1 on an abnormal close while a retry is still due (attempts below the maximum).
C5_AttemptsChangeOnlyByOpenOrRetry ==
    [][connectionAttempts' # connectionAttempts =>
          \/ connectionAttempts' = 0 /\ \E s \in 1..Len(sessions) : OpenStep(s)
          \/ /\ connectionAttempts' = connectionAttempts + 1
             /\ connectionAttempts < WS_RECONNECT_ATTEMPTS
             /\ \E s \in 1..Len(sessions), ev \in CloseEvents :
                    OnClose(s, ev) /\ ~ev.wasClean]_vars

\* C6: while the status is completed or failed, no step schedules a reconnect timer
\* and no step creates a WebSocket (the part of the claim a finite run can refute).
C6_NoReconnectAfterTerminal ==
    [][(status \in TerminalStatuses) =>
          /\ Len(sessions') = Len(sessions)
          /\ reconnectTimeout' \in {Undefined, reconnectTimeout}]_vars

\* C7: after the unmount, no step (late open, message, close, timer) changes status,
\* progress, pdfUrl or error.
C7_DisposedSnapshotIsFrozen ==
    [][~mounted => (UNCHANGED <<status, progress, pdfUrl, error>>)]_vars

\* C7 witness: the component is unmounted and ws.onopen has run since. The only
\* WebSocket is closing although no cleanup captured it (effectSocket is null), no
\* failure frame closed it (status is pending) and no completed frame did (progress
\* is 0): the close() is the one ws.onopen makes when it finds the component
\* unmounted.
C7_LateCallbackSeen ==
    /\ ~mounted
    /\ Len(sessions) = 1 /\ sessions[1].rs = "closing"
    /\ effectSocket = 0 /\ status = "pending" /\ progress = 0

\* C8: once unmounted, no reconnect timer is pending and no WebSocket of the hook is
\* connecting or open.
C8_DisposalClosesEverything ==
    ~mounted => reconnectTimeout = Undefined /\ LiveSessions = {}

\* C9: a manual check that resolves after the unmount changes nothing App shows
\* (onComplete is not called).
C9_LateCheckDiscarded ==
    [][~mounted /\ (\E r \in FetchResults : FetchResolves(r))
          => (UNCHANGED <<appTaskId, appPdfUrl>>)]_vars

\* C10: a manual check that resolves while the snapshot is not terminal leaves the
\* snapshot as the frame of the same content would: the fetched status, and for
\* completed progress 100 and the resolved pdf_url.
C10_CheckAppliedLikeMessage ==
    [][\A r \in FetchResults :
          FetchResolves(r) /\ mounted /\ status \notin TerminalStatuses
          => /\ status' = r.status
             /\ r.status = "completed" => progress' = 100
             /\ r.status = "completed" /\ TruthyUrl(r.pdf_url)
                => pdfUrl' = Some(FullPdfUrl(r.pdf_url[1]))]_vars

\* C11: an abnormal close (wasClean false, component mounted) that finds the retries
\* used up (connectionAttempts at the maximum, the guard of connect) leaves the
\* give-up error set, creates no WebSocket, leaves no reconnect timer pending and
\* changes neither status nor progress.
C11_ExhaustedCloseGivesUp ==
    [][\A s \in 1..Len(sessions), ev \in CloseEvents :
          /\ OnClose(s, ev)
          /\ ~ev.wasClean
          /\ ~isUnmountedRef
          /\ ConnectGivesUp(connectionAttempts)
          => /\ error' = Some(GiveUpError)
             /\ Len(sessions') = Len(sessions)
             /\ reconnectTimeout' = Undefined
             /\ UNCHANGED <<status, progress>>]_vars

\* every WebSocket the hook created has closed
AllClosed == \A s \in 1..Len(sessions) : sessions[s].rs = "closed"

\* the hook has given up: the give-up error shows, no WebSocket is connecting or
\* open, no reconnect timer is pending
GivenUp == error = Some(GiveUpError) /\ LiveSessions = {} /\ reconnectTimeout = Undefined

\* no WebSocket has opened since the mount, and WS_RECONNECT_ATTEMPTS of them have
\* closed one after the other (a WebSocket that never opened closes with wasClean
\* false), and the render that follows the last close has run
MaxClosesNoOpen ==
    /\ mounted /\ ~everOpened /\ ~RenderPending
    /\ Len(sessions) = WS_RECONNECT_ATTEMPTS /\ AllClosed

C13_ReconnectOnlyByTimer ==
    [][reconnectTimeout # Undefined /\ Len(sessions') > Len(sessions)
          => ReconnectTimerFires /\ mounted]_vars

\* the WebSocket created last is open, as far as its handlers have been told: opened,
\* and no close event yet
CurrentSessionOpen ==
    Len(sessions) > 0 /\ sessions[Len(sessions)].rs \in {"open", "closing"}

\* C14: while the component is mounted, isConnected implies that the WebSocket
\* created last is open: isConnected is false while that one is connecting, after
\* it closed or failed, and after the give-up.
C14_ConnectedMeansCurrentOpen == mounted /\ isConnected => CurrentSessionOpen

\* frames by the discriminator they carry, whatever the switch makes of them
CompletedFrames == {m \in Messages : m.parses /\ m.state \in {Some("SUCCESS"), Some("COMPLETED")}}
FailedFrames == {m \in Messages : m.parses /\ m.state \in {Some("FAILED"), Some("ERROR")}}

\* ws.onmessage can run its switch: the component is mounted and a WebSocket is open
FrameCanArrive ==
    ~isUnmountedRef /\ \E s \in 1..Len(sessions) : sessions[s].rs = "open"

\* info.pdf_url is present and not the empty string
CarriesPdfUrl(m) == m.pdf_url \notin {Undefined, Some(EmptyStr)}

\* the absolute URL of the one document: AbsolutePdf as it is, RelativePdf on
\* API_BASE_URL
ResolvedPdf == <<"h", "/", "a">>

\* C15: a SUCCESS or COMPLETED frame handled while mounted leaves status completed
\* and progress 100; pdfUrl becomes the resolved info.pdf_url when the frame carries
\* a non-empty one, and keeps its value (possibly unset) when it does not.
\* (Stated on every reachable state in which a frame can arrive, mounted with an
\* open WebSocket, as what ws.onmessage makes of each such frame there.)
C15_CompletedFrameApplied ==
    FrameCanArrive =>
        \A m \in CompletedFrames :
            /\ StatusAfter(MessageCase(m), status) = "completed"
            /\ ProgressAfter(MessageCase(m), m, progress) = 100
            /\ PdfUrlAfter(MessageCase(m), m, pdfUrl)
                  = IF CarriesPdfUrl(m) THEN Some(ResolvedPdf) ELSE pdfUrl

\* C15 witness: completed, progress 100, and the relative pdf_url resolved against
\* API_BASE_URL.
C15_CompletedWithUrl ==
    status = "completed" /\ progress = 100 /\ pdfUrl = Some(ResolvedPdf)

\* C15 as stated: after any SUCCESS or COMPLETED frame, with or without info.pdf_url,
\* status is completed, progress 100 and pdfUrl is set.
C15_CompletedAlwaysHasUrl ==
    [][\A s \in 1..Len(sessions), m \in CompletedFrames :
          ~isUnmountedRef /\ OnMessage(s, m)
          => status' = "completed" /\ progress' = 100 /\ pdfUrl' # Undefined]_vars

\* the text a failure frame stands for: info.error, else the top-level error, else
\* the default (an empty text counts as absent)
ExpectedFailureText(m) ==
    IF m.infoError \notin {Undefined, Some("")} THEN m.infoError[1]
    ELSE IF m.topError \notin {Undefined, Some("")} THEN m.topError[1]
    ELSE "Task failed"

\* C16: a FAILED or ERROR frame handled while mounted leaves status failed and a
\* non-empty error (info.error, else the top-level error, else the default), and
\* does not change progress.
\* (Stated on every reachable state in which a frame can arrive, as what
\* ws.onmessage makes of each such frame there.)
C16_FailedFrameApplied ==
    FrameCanArrive =>
        \A m \in FailedFrames :
            /\ StatusAfter(MessageCase(m), status) = "failed"
            /\ ErrorAfter(MessageCase(m), m, error) \notin {Undefined, Some("")}
            /\ ErrorAfter(MessageCase(m), m, error) = Some(ExpectedFailureText(m))
            /\ ProgressAfter(MessageCase(m), m, progress) = progress

\* C16 witness: failed with the top-level error text (info.error absent or empty),
\* at a progress a frame had reported before.
C16_FailedWithTopError ==
    status = "failed" /\ error = Some("top") /\ progress = 40

\* C17: whenever status is completed, progress is 100, whatever frames arrived
\* before or after the completed one.
C17_CompletedMeansFull == status = "completed" => progress = 100

\* C17 witness: completed with progress 100 while the WebSocket that delivered the
\* frame is still open (its delayed close is pending) and may deliver more frames.
C17_CompletedStillListening ==
    /\ status = "completed" /\ progress = 100
    /\ \E s \in 1..Len(sessions) : sessions[s].rs = "open" /\ sessions[s].grace

\* C18: progress is always an integer in 0..100, also after frames whose
\* info.progress is outside that range.
C18_ProgressInRange == progress \in 0..100

\* C19: pdfUrl changes only from unset to set, and only in a step that takes status
\* from another value to completed; so it is assigned at most once and never
\* changed afterwards.
C19_PdfUrlSetOnceOnCompletion ==
    [][pdfUrl' # pdfUrl =>
          /\ pdfUrl = Undefined
          /\ status # "completed" /\ status' = "completed"]_vars

\* C20: error changes only from unset to set, and only in a step that takes status
\* from another value to failed; no other step (open, give-up, a WebSocket that
\* cannot be created) sets or clears it.
C20_ErrorSetOnceOnFailure ==
    [][error' # error =>
          /\ error = Undefined
          /\ status # "failed" /\ status' = "failed"]_vars

\* a close handler took its retry branch: the count went up by one and a reconnect
\* timer is pending
Retried == connectionAttempts' = connectionAttempts + 1 /\ reconnectTimeout' # Undefined

\* C21: the retry decision depends on connectionAttempts alone: a close with wasClean
\* false (component mounted) is retried exactly when connectionAttempts is below
\* WS_RECONNECT_ATTEMPTS, and no WebSocket is created while it is at or above it.
C21_RetryDependsOnCountOnly ==
    [][/\ \A s \in 1..Len(sessions), ev \in CloseEvents :
            ~isUnmountedRef /\ ~ev.wasClean /\ OnClose(s, ev)
            => (Retried <=> connectionAttempts < WS_RECONNECT_ATTEMPTS)
       /\ Len(sessions') > Len(sessions) => connectionAttempts < WS_RECONNECT_ATTEMPTS]_vars

\* the close events the handler takes as expected: clean, or with code 1000
ExpectedCloses == {ev \in CloseEvents : ev.wasClean \/ ev.code = 1000}

\* C22: a close that is clean or has code 1000 sets isConnected to false and changes
\* nothing else: connectionAttempts, the reconnect timer, the number of WebSockets
\* created and the snapshot stay as they were. (Every step either has that effect or
\* is not the handling of such a close.)
C22_ExpectedCloseOnlyDisconnects ==
    [][\/ /\ isConnected' = FALSE
          /\ UNCHANGED <<connectionAttempts, reconnectTimeout, status, progress, pdfUrl, error>>
          /\ Len(sessions') = Len(sessions)
       \/ \A s \in 1..Len(sessions), ev \in ExpectedCloses : ~OnClose(s, ev)]_vars

\* C22 witness: the only WebSocket opened, delivered a progress frame and closed, and
\* the close was an expected one: nothing was counted and nothing is scheduled.
C22_ClosedAsExpected ==
    /\ mounted /\ everOpened /\ Len(sessions) = 1 /\ AllClosed
    /\ ~isConnected /\ connectionAttempts = 0 /\ reconnectTimeout = Undefined
    /\ status = "processing" /\ progress = 40

\* the eight discriminators the switch accepts
AcceptedDiscriminators ==
    {"PENDING", "PROCESSING", "IN_PROGRESS", "PROGRESS", "SUCCESS", "COMPLETED", "FAILED", "ERROR"}

\* frames that do not parse, carry no discriminator, or carry one that is not accepted
IgnoredFrames ==
    {m \in Messages : ~m.parses \/ m.state = Undefined \/ m.state[1] \notin AcceptedDiscriminators}

\* C23: a frame that does not parse, has no discriminator or has one that is not
\* accepted changes nothing: the handler runs no case of the switch, so status,
\* progress, pdfUrl and error stay, the WebSocket is neither closed nor set to close,
\* and (the handler touching nothing else) the diagnostics and the reconnect timer
\* stay. (Stated on every reachable state in which a frame can arrive.)
C23_IgnoredFrameChangesNothing ==
    FrameCanArrive =>
        \A m \in IgnoredFrames :
            /\ MessageCase(m) = "none"
            /\ StatusAfter(MessageCase(m), status) = status
            /\ ProgressAfter(MessageCase(m), m, progress) = progress
            /\ PdfUrlAfter(MessageCase(m), m, pdfUrl) = pdfUrl
            /\ ErrorAfter(MessageCase(m), m, error) = error
            /\ \A s \in 1..Len(sessions) :
                  sessions[s].rs = "open" => SessionsAfter(MessageCase(m), s, sessions) = sessions

\* C23 witness: mid-stream (processing at 40, connected), where such a frame can
\* arrive and leaves exactly this state.
C23_MidStream ==
    FrameCanArrive /\ isConnected /\ status = "processing" /\ progress = 40 /\ error = Undefined

\* the canonical status of an accepted discriminator
Canonical(d) ==
    CASE d = "PENDING" -> "pending"
      [] d \in {"PROCESSING", "IN_PROGRESS", "PROGRESS"} -> "processing"
      [] d \in {"SUCCESS", "COMPLETED"} -> "completed"
      [] d \in {"FAILED", "ERROR"} -> "failed"

\* the frames that parse and carry the discriminator d
FramesWith(d) == {m \in Messages : m.parses /\ m.state = Some(d)}

\* C24: each of the eight accepted discriminators has one canonical status (PENDING
\* pending; PROCESSING, IN_PROGRESS, PROGRESS processing; SUCCESS, COMPLETED completed;
\* FAILED, ERROR failed), and a frame with that discriminator, arriving while status
\* is pending or processing, sets status to it. (Stated on every reachable state in
\* which a frame can arrive.)
C24_DiscriminatorSetsCanonicalStatus ==
    FrameCanArrive /\ status \notin TerminalStatuses =>
        \A d \in AcceptedDiscriminators :
            /\ FramesWith(d) # {}
            /\ \A m \in FramesWith(d) :
                  /\ MessageCase(m) = Canonical(d)
                  /\ StatusAfter(MessageCase(m), status) = Canonical(d)

\* C24 witness: a frame took status from pending to processing on the open WebSocket.
C24_ProcessingFromPending ==
    FrameCanArrive /\ isConnected /\ status = "processing" /\ progress = 0 /\ Len(sessions) = 1

\* C25: a pending or processing frame merges into the snapshot: progress becomes
\* info.progress when the frame carries one and keeps its value when it carries none
\* (it is not reset to 0), and pdfUrl and error keep their values. (Stated on every
\* reachable state in which a frame can arrive.)
C25_ProgressFramesMerge ==
    FrameCanArrive =>
        \A d \in ProgressStates : \A m \in FramesWith(d) :
            /\ ProgressAfter(MessageCase(m), m, progress)
                  = IF m.progress # Undefined THEN m.progress[1] ELSE progress
            /\ PdfUrlAfter(MessageCase(m), m, pdfUrl) = pdfUrl
            /\ ErrorAfter(MessageCase(m), m, error) = error

\* C25 witness: status went back to pending with progress 40 kept, on the first
\* WebSocket, where a further frame without progress can arrive.
C25_PendingKeepsProgress ==
    FrameCanArrive /\ Len(sessions) = 1 /\ status = "pending" /\ progress = 40

\* the base with one trailing "/" taken off, if it has one
OneSlashStripped(b) ==
    IF Len(b) > 0 /\ b[Len(b)] = "/" THEN [i \in 1..(Len(b) - 1) |-> b[i]] ELSE b

\* C26: for a completed frame carrying a (non-empty) pdf_url r, the pdfUrl set is the
\* base URL with one trailing "/" taken off followed by r when r begins with "/",
\* and r itself otherwise; base "h" and base "h/" both give "h/a" for r = "/a".
C26_ResultUrlResolved ==
    TruthyUrl(infoPdfUrl) =>
        LET r == infoPdfUrl[1] IN
        /\ r[1] = "/" => pdfUrl = Some(OneSlashStripped(apiBaseUrl) \o r)
        /\ r[1] # "/" => pdfUrl = Some(r)
        /\ r = <<"/", "a">> /\ apiBaseUrl \in {<<"h">>, <<"h", "/">>}
              => pdfUrl = Some(<<"h", "/", "a">>)

\* C26 witness: a base URL without a trailing slash, and "/a" resolved against it.
C26_RelativeOnBareBase ==
    /\ apiBaseUrl = <<"h">> /\ infoPdfUrl = Some(<<"/", "a">>)
    /\ pdfUrl = Some(<<"h", "/", "a">>)

\* no WebSocket of the hook is connecting or open
NoneConnectingOrOpen == \A s \in 1..Len(sessions) : sessions[s].rs \notin {"connecting", "open"}

\* C27: the hook does not silently stop following a running job: while it is mounted,
\* status is pending or processing and no WebSocket is connecting or open, either a
\* reconnect is on its way (the timer is set, or a render that re-runs connect is
\* due) or an error is set (the give-up error, or the error of a WebSocket that
\* could not be created).
C27_NeverSilentlyStopsTracking ==
    (mounted /\ ~isUnmountedRef /\ status \in {"pending", "processing"} /\ NoneConnectingOrOpen)
        => \/ reconnectTimeout # Undefined
           \/ RenderPending
           \/ error \in {Some(GiveUpError), Some(CreateError)}

\* C28: retries are bounded and give-up is reached. While every WebSocket closes
\* abnormally without opening, the hook (unless the user unmounts it first) comes to
\* have given up, with the give-up error set; it never creates more WebSockets than
\* the retry limit; and once it has given up it stays so and creates no further
\* WebSocket.
C28_GiveUpReached ==
    /\ <>(GivenUp \/ ~mounted)
    /\ [](Len(sessions) <= maxAttempts)
    /\ [][GivenUp => (GivenUp' /\ sessions' = sessions)]_vars

\* C28 witness: given up, still mounted, under the largest retry limit, after as many
\* WebSockets as the limit, all closed without opening.
C28_GaveUpAfterMaxSockets ==
    /\ mounted /\ ~everOpened /\ GivenUp /\ AllClosed
    /\ maxAttempts = MaxSessions
    /\ Len(sessions) = maxAttempts
    /\ renderedAttempts = maxAttempts

\* C29: in every reachable state, status = failed implies that error is set and not
\* empty: no event after a reported failure (an open of another WebSocket in
\* particular) leaves status failed without an error message.
C29_FailedHasError == status = "failed" => TruthyStr(error)

\* C30: at most one manual status check is in flight at a time: a check starts only
\* while isCheckingStatus is false, the hook is not connected and status is not
\* completed; isCheckingStatus is true exactly while the check is in flight, so
\* every check, resolved or rejected, ends with isCheckingStatus false; and the end
\* of a check leaves status, progress, pdfUrl and error of the hook as they were.
C30_OneManualCheckAtATime ==
    /\ [](fetchInFlight <= 1)
    /\ [](isCheckingStatus <=> fetchInFlight = 1)
    /\ [][fetchInFlight' > fetchInFlight
            => mounted /\ ~isCheckingStatus /\ ~isConnected /\ status # "completed"]_vars
    /\ [][fetchInFlight' < fetchInFlight
            => ~isCheckingStatus' /\ UNCHANGED <<status, progress, pdfUrl, error>>]_vars

\* C30 witness: a check is in flight, started with the hook disconnected and the job
\* running, and the button that starts another is disabled.
C30_CheckInFlight ==
    /\ mounted /\ fetchInFlight = 1 /\ isCheckingStatus /\ ~CheckButtonEnabled
    /\ ~isConnected /\ status = "processing"

====
